---------------------------- MODULE Spec2Model ----------------------------
(***************************************************************************)
(* A model of wp-warden's check_versions.py: the batch job that inspects   *)
(* a list of WordPress sites (versions, TLS certificate, performance,      *)
(* malware, uptime), builds an HTML report and mails it.                   *)
(*                                                                         *)
(* Python values are modelled as follows.                                  *)
(*   str        a sequence of one-character strings; a character outside   *)
(*              ASCII is written "U+XXXX".                                 *)
(*   None       the value None (below): a one-element sequence whose       *)
(*              element is not a character, so it equals no str.           *)
(*   dict       a record over the keys the code reads; a key that is not   *)
(*              in the dict holds Absent, which like None equals no str.   *)
(*   float      Num(h): the number h/100 is kept as the integer h.         *)
(*   datetime   an integer count of seconds.                               *)
(***************************************************************************)
EXTENDS Integers, Sequences, FiniteSets, TLC

VARIABLES
  pc,                \* the statement the process is at
  exc,               \* the exception that left main() uncaught, or "None"
  env,               \* the environment values main() read at startup
  urls,              \* main: urls
  to_emails,         \* main: to_emails
  i,                 \* main: index of the loop "for url in urls"
  url,               \* main: url of the current iteration
  php_version,       \* get_versions / main: php_version
  wp_version,        \* get_versions / main: wp_version
  plugins,           \* get_versions / main: plugins
  themes,            \* get_versions / main: themes
  k,                 \* get_versions: index of the plugin or theme being resolved
  name,              \* get_versions: plugin_name / theme_name; generate_slugs: name
  slugs,             \* the list generate_slugs returned for name
  c,                 \* get_versions: index of the loop "for slug in generate_slugs(..)"
  ssl_status,        \* main: ssl_status
  ssl_expiry_date,   \* main: ssl_expiry_date
  ssl_expiry_color,  \* main: ssl_expiry_color
  performance_score, \* main: performance_score
  malware_scan,      \* main: malware_scan
  uptime_status,     \* main: uptime_status
  checked_at,        \* main: checked_at
  results,           \* main: results
  now,               \* the wall clock, in seconds
  requests,          \* every network request issued so far, in order
  email_body,        \* main: the report, as the rows it renders
  smtp,              \* send_email: the SMTP calls made so far, in order
  last               \* the inputs the last step drew from the outside world

vars == << pc, exc, env, urls, to_emails, i, url, php_version, wp_version,
           plugins, themes, k, name, slugs, c, ssl_status, ssl_expiry_date,
           ssl_expiry_color, performance_score, malware_scan, uptime_status,
           checked_at, results, now, requests, email_body, smtp, last >>

---------------------------------------------------------------------------
(* Bounds of the model. *)

\* The longest display name handed to generate_slugs on its own.
MaxNameLen == 3
\* The largest number of comma-separated entries in the configured site list.
MaxSites == 2

---------------------------------------------------------------------------
(* Python values. *)

None == << "None" >>
Absent == << "Absent" >>
Num(h) == << "float", h >>

RECURSIVE Join(_)
\* "".join(parts)
Join(parts) == IF parts = << >> THEN << >> ELSE Head(parts) \o Join(Tail(parts))

UpperChars == << "A","B","C","D","E","F","G","H","I","J","K","L","M",
                 "N","O","P","Q","R","S","T","U","V","W","X","Y","Z" >>
LowerChars == << "a","b","c","d","e","f","g","h","i","j","k","l","m",
                 "n","o","p","q","r","s","t","u","v","w","x","y","z" >>

\* str.lower() on one character: A-Z map to a-z, every other character of the
\* model (digits, punctuation, lower case, U+00FC, U+2013) is unchanged.
LowerChar(ch) ==
  IF \E j \in 1..Len(UpperChars) : UpperChars[j] = ch
  THEN LowerChars[CHOOSE j \in 1..Len(UpperChars) : UpperChars[j] = ch]
  ELSE ch

\* str.lower()
Lower(s) == [j \in 1..Len(s) |-> LowerChar(s[j])]

RECURSIVE Replace(_, _, _)
\* str.replace(old, new) for a one-character old: every occurrence, left to right.
Replace(s, old, new) ==
  IF s = << >> THEN << >>
  ELSE (IF Head(s) = old THEN new ELSE << Head(s) >>) \o Replace(Tail(s), old, new)

\* str.startswith(prefix)
StartsWith(s, prefix) ==
  Len(s) >= Len(prefix) /\ SubSeq(s, 1, Len(prefix)) = prefix

---------------------------------------------------------------------------
(* generate_slugs *)

special_cases ==
  <<
    \* 'Cookie-Banner-Plugin fu"r WordPress -- Cookiebot CMP by Usercentrics': 'cookiebot'
    [key  |-> <<"C","o","o","k","i","e","-","B","a","n","n","e","r","-","P","l","u","g","i","n"," ","f","U+00FC","r"," ","W","o","r","d","P","r","e","s","s"," ","U+2013"," ","C","o","o","k","i","e","b","o","t"," ","C","M","P"," ","b","y"," ","U","s","e","r","c","e","n","t","r","i","c","s">>,
     slug |-> <<"c","o","o","k","i","e","b","o","t">>],
    \* 'Complianz -- GDPR/CCPA Cookie Consent': 'complianz-gdpr'
    [key  |-> <<"C","o","m","p","l","i","a","n","z"," ","U+2013"," ","G","D","P","R","/","C","C","P","A"," ","C","o","o","k","i","e"," ","C","o","n","s","e","n","t">>,
     slug |-> <<"c","o","m","p","l","i","a","n","z","-","g","d","p","r">>],
    \* 'Yoast SEO': 'wordpress-seo'
    [key  |-> <<"Y","o","a","s","t"," ","S","E","O">>,
     slug |-> <<"w","o","r","d","p","r","e","s","s","-","s","e","o">>],
    \* 'WP Social Widget': 'wp-social-widget'
    [key  |-> <<"W","P"," ","S","o","c","i","a","l"," ","W","i","d","g","e","t">>,
     slug |-> <<"w","p","-","s","o","c","i","a","l","-","w","i","d","g","e","t">>],
    \* 'Smush': 'wp-smushit'
    [key  |-> <<"S","m","u","s","h">>,
     slug |-> <<"w","p","-","s","m","u","s","h","i","t">>],
    \* 'Self-Hosted Google Fonts': 'selfhost-google-fonts'
    [key  |-> <<"S","e","l","f","-","H","o","s","t","e","d"," ","G","o","o","g","l","e"," ","F","o","n","t","s">>,
     slug |-> <<"s","e","l","f","h","o","s","t","-","g","o","o","g","l","e","-","f","o","n","t","s">>],
    \* 'ShortPixel Image Optimizer': 'shortpixel-image-optimiser'
    [key  |-> <<"S","h","o","r","t","P","i","x","e","l"," ","I","m","a","g","e"," ","O","p","t","i","m","i","z","e","r">>,
     slug |-> <<"s","h","o","r","t","p","i","x","e","l","-","i","m","a","g","e","-","o","p","t","i","m","i","s","e","r">>],
    \* 'WPCode Lite': 'insert-headers-and-footers'
    [key  |-> <<"W","P","C","o","d","e"," ","L","i","t","e">>,
     slug |-> <<"i","n","s","e","r","t","-","h","e","a","d","e","r","s","-","a","n","d","-","f","o","o","t","e","r","s">>],
    \* 'Twenty Twenty-Four': 'twentytwentyfour'
    [key  |-> <<"T","w","e","n","t","y"," ","T","w","e","n","t","y","-","F","o","u","r">>,
     slug |-> <<"t","w","e","n","t","y","t","w","e","n","t","y","f","o","u","r">>]
  >>

\* name in special_cases
InSpecialCases(n) == \E j \in 1..Len(special_cases) : special_cases[j].key = n

\* special_cases[name]
SpecialCase(n) ==
  special_cases[CHOOSE j \in 1..Len(special_cases) : special_cases[j].key = n].slug

\* A slip the fourth candidate invites: the periods are left in.
generate_slugs_keeps_periods(n) ==
  IF InSpecialCases(n) THEN << SpecialCase(n) >>
  ELSE << Replace(Lower(n), " ", << "-" >>),
          Replace(Lower(n), " ", << "_" >>),
          Replace(Lower(n), " ", << >>),
          Replace(Lower(n), " ", << "-" >>) >>

generate_slugs(n) ==
  IF InSpecialCases(n) THEN << SpecialCase(n) >>
  ELSE << Replace(Lower(n), " ", << "-" >>),
          Replace(Lower(n), " ", << "_" >>),
          Replace(Lower(n), " ", << >>),
          Replace(Replace(Lower(n), " ", << "-" >>), ".", << >>) >>

---------------------------------------------------------------------------
(* String literals of the program. *)

Unknown == <<"U","n","k","n","o","w","n">>
NA == <<"N","/","A">>
HttpScheme == <<"h","t","t","p",":","/","/">>
HttpsScheme == <<"h","t","t","p","s",":","/","/">>
VersionInfoPath == <<"/","v","e","r","s","i","o","n","-","i","n","f","o",".","p","h","p">>
Green == <<"g","r","e","e","n">>
Orange == <<"o","r","a","n","g","e">>
Red == <<"r","e","d">>
Valid == <<"V","a","l","i","d">>
Invalid == <<"I","n","v","a","l","i","d">>
MalwareFound == <<"M","a","l","w","a","r","e"," ","f","o","u","n","d">>
NoMalwareDetected == <<"N","o"," ","m","a","l","w","a","r","e"," ","d","e","t","e","c","t","e","d">>
ScanFailed == <<"S","c","a","n"," ","f","a","i","l","e","d">>
Online == <<"O","n","l","i","n","e">>
Error == <<"E","r","r","o","r">>
UpdateColor == <<"#","E","6","7","E","2","2">>
Black == <<"b","l","a","c","k">>

\* "<span style='color:COLOR;'>TEXT</span>": the markup is kept as two tokens
\* around the text, neither of them a character.
Span(color, text) == << "<span>" >> \o color \o << ";" >> \o text \o << "</span>" >>

---------------------------------------------------------------------------
(* Strings and URLs. *)

\* The index of the first occurrence of sep in s, or 0.
Find(s, sep) ==
  LET hits == { j \in 1..(Len(s) - Len(sep) + 1) : SubSeq(s, j, j + Len(sep) - 1) = sep }
  IN IF hits = {} THEN 0 ELSE CHOOSE j \in hits : \A h \in hits : j <= h

RECURSIVE Split(_, _)
\* str.split(sep) for a non-empty sep: never an empty list.
Split(s, sep) ==
  IF Find(s, sep) = 0 THEN << s >>
  ELSE << SubSeq(s, 1, Find(s, sep) - 1) >>
         \o Split(SubSeq(s, Find(s, sep) + Len(sep), Len(s)), sep)

RECURSIVE LStrip(_)
LStrip(s) == IF s # << >> /\ Head(s) = " " THEN LStrip(Tail(s)) ELSE s

RECURSIVE RStrip(_)
RStrip(s) ==
  IF s # << >> /\ s[Len(s)] = " " THEN RStrip(SubSeq(s, 1, Len(s) - 1)) ELSE s

\* str.strip(): the only whitespace of the model is the space.
Strip(s) == RStrip(LStrip(s))

\* A scheme test that forgets 'http://'.
add_scheme_https_only(u) ==
  IF ~StartsWith(u, HttpsScheme) THEN HttpsScheme \o u ELSE u

add_scheme(u) ==
  IF ~(StartsWith(u, HttpScheme) \/ StartsWith(u, HttpsScheme))
  THEN HttpsScheme \o u
  ELSE u

\* url.split("//")[-1].split("/")[0]
HostOf(u) ==
  LET parts == Split(u, << "/", "/" >>)
  IN Head(Split(parts[Len(parts)], << "/" >>))

---------------------------------------------------------------------------
(* Exceptions. *)

\* requests.RequestException and the subclasses the model raises. InvalidURL
\* is what requests raises, before sending anything, for a URL with no host.
RequestException == { "ConnectionError", "HTTPError", "InvalidURL" }

\* Every exception of the model is an Exception.
ExceptionTypes ==
  RequestException \cup { "KeyError", "TypeError", "ValueError", "AttributeError",
                          "SMTPException", "OSError" }

\* The outcome of requests.get / requests.post followed by raise_for_status():
\* "OK", or the exception raised.
HttpStatuses == { "OK", "ConnectionError", "HTTPError" }

\* bool(v) for a str or None.
Truthy(v) == v # None /\ v # << >>

\* dict.get(key): None for a key that is not there.
GetOrNone(v) == IF v = Absent THEN None ELSE v

\* dict.get(key, default)
GetOr(v, default) == IF v = Absent THEN default ELSE v

\* a or b
PyOr(a, b) == IF Truthy(a) THEN a ELSE b

exempt_slugs ==
  { <<"a","v","a","d","a">>,
    <<"a","v","a","d","a","-","b","u","i","l","d","e","r">>,
    <<"a","v","a","d","a","-","c","o","r","e">>,
    <<"a","v","a","d","a","-","c","h","i","l","d">>,
    <<"a","v","a","d","a","c","h","i","l","d">>,
    <<"a","v","a","d","a","_","c","h","i","l","d">>,
    <<"a","v","a","d","a","c","o","r","e">>,
    <<"a","v","a","d","a","_","c","o","r","e">>,
    <<"a","v","a","d","a","b","u","i","l","d","e","r">>,
    <<"a","v","a","d","a","_","b","u","i","l","d","e","r">> }

---------------------------------------------------------------------------
(* fetch_wp_directory and fetch_envato_version.  reply is what the network  *)
(* answers, should the function send its request:                          *)
(*   [status, version, other]           for the directory,                 *)
(*   [status, theme_latest, plugin_latest]  for the marketplace,           *)
(* version and the two latest fields a str, or Absent for a key the JSON   *)
(* body does not hold; other says the body holds other keys.               *)
(* The result: sent, whether a request went out; is_none, whether the      *)
(* function returned None; json, the dict it returned otherwise.           *)

EmptyJson == [version |-> Absent, other |-> FALSE]

\* A lookup without the exemption list.
fetch_wp_directory_no_exemption(slug, type, reply) ==
  IF reply.status \in RequestException
  THEN [sent |-> TRUE, is_none |-> TRUE, json |-> EmptyJson]
  ELSE [sent |-> TRUE, is_none |-> FALSE,
        json |-> [version |-> reply.version, other |-> reply.other]]

\* An exemption test that forgets to lower-case the slug.
fetch_wp_directory_case_sensitive(slug, type, reply) ==
  IF slug \in exempt_slugs
  THEN [sent |-> FALSE, is_none |-> TRUE, json |-> EmptyJson]
  ELSE IF reply.status \in RequestException
  THEN [sent |-> TRUE, is_none |-> TRUE, json |-> EmptyJson]
  ELSE [sent |-> TRUE, is_none |-> FALSE,
        json |-> [version |-> reply.version, other |-> reply.other]]

fetch_wp_directory(slug, type, reply) ==
  IF Lower(slug) \in exempt_slugs
  THEN [sent |-> FALSE, is_none |-> TRUE, json |-> EmptyJson]
  ELSE IF reply.status \in RequestException
  THEN [sent |-> TRUE, is_none |-> TRUE, json |-> EmptyJson]
  ELSE [sent |-> TRUE, is_none |-> FALSE,
        json |-> [version |-> reply.version, other |-> reply.other]]

\* plugin_info and 'version' in plugin_info: None and the empty dict are falsy.
HasVersion(info) ==
  /\ ~info.is_none
  /\ (info.json.version # Absent \/ info.json.other)
  /\ info.json.version # Absent

\* envato_items['avada']
EnvatoAvadaId == <<"2","8","3","3","2","2","6">>

\* data.get("wordpress_theme_latest_version") or data.get("wordpress_plugin_latest_version"),
\* or None when the request raised.
fetch_envato_version(item_id, reply) ==
  IF reply.status \in RequestException
  THEN None
  ELSE PyOr(GetOrNone(reply.theme_latest), GetOrNone(reply.plugin_latest))

---------------------------------------------------------------------------
(* The probes of one site: check_ssl_certificate and main's classification, *)
(* get_performance_metrics, scan_for_malware, check_uptime.                 *)

\* timedelta.days counts whole days of 86400 seconds, rounding down.
SecondsPerDay == 86400
\* time.sleep(5)
SleepSeconds == 5
\* Europe/Warsaw, taken at its winter offset from UTC, in seconds.
WarsawUtcOffset == 3600

DateTime(t) == << "datetime", t >>
\* isinstance(v, datetime)
IsDateTime(v) == Len(v) = 2 /\ v[1] = "datetime"
\* strftime('%Y-%m-%d') in Europe/Warsaw: the day the instant falls on.
FormatDate(t) == << "date", (t + WarsawUtcOffset) \div SecondsPerDay >>
\* strftime('%Y-%m-%d %H:%M:%S')
FormatTime(t) == << "time", t >>
\* str(e)
ErrorMessage == <<"e","r","r">>

\* probe: [handshake, delta]: whether connecting and the TLS handshake succeed,
\* and how many seconds after the clock's time the certificate expires.
\* A URL with no host fails in name resolution: nothing is connected to.
check_ssl_certificate(u, probe, clock) ==
  IF HostOf(u) = << >>
  THEN [sent |-> FALSE, ssl_valid |-> FALSE, ssl_info |-> ErrorMessage]
  ELSE IF ~probe.handshake
  THEN [sent |-> TRUE, ssl_valid |-> FALSE, ssl_info |-> ErrorMessage]
  ELSE [sent |-> TRUE, ssl_valid |-> TRUE, ssl_info |-> DateTime(clock + probe.delta)]

\* (ssl_info - current_time).days
DaysUntil(ssl_info, clock) == (ssl_info[2] - clock) \div SecondsPerDay

\* A classification that treats the last day as still orange.
SslFields_off_by_one(ssl_valid, ssl_info, clock) ==
  IF ssl_valid /\ IsDateTime(ssl_info)
  THEN [ssl_status |-> Span(Green, Valid),
        ssl_expiry_date |-> FormatDate(ssl_info[2]),
        ssl_expiry_color |->
          IF DaysUntil(ssl_info, clock) > 30 THEN Green
          ELSE IF DaysUntil(ssl_info, clock) >= 0 THEN Orange
          ELSE Red]
  ELSE [ssl_status |-> Span(Red, Invalid),
        ssl_expiry_date |-> NA,
        ssl_expiry_color |-> Red]

SslFields(ssl_valid, ssl_info, clock) ==
  IF ssl_valid /\ IsDateTime(ssl_info)
  THEN [ssl_status |-> Span(Green, Valid),
        ssl_expiry_date |-> FormatDate(ssl_info[2]),
        ssl_expiry_color |->
          IF DaysUntil(ssl_info, clock) > 30 THEN Green
          ELSE IF DaysUntil(ssl_info, clock) > 0 THEN Orange
          ELSE Red]
  ELSE [ssl_status |-> Span(Red, Invalid),
        ssl_expiry_date |-> NA,
        ssl_expiry_color |-> Red]

\* The number of keys data['lighthouseResult']['categories']['performance']['score'] reads.
ScorePathLen == 4

\* reply: [status, present, score]: present counts how many keys of the path
\* lighthouseResult, categories, performance, score the JSON body holds, in
\* that order; score is None for a JSON null and Num(h) for the number h/100.
\* The result: exc, the exception that leaves the function ("None": it returned);
\* ret, what it returned; sent, whether a request went out.
get_performance_metrics(u, api_key, reply) ==
  IF ~Truthy(api_key)
  THEN [sent |-> FALSE, exc |-> "None", ret |-> NA]
  ELSE IF reply.status \in RequestException
  THEN [sent |-> TRUE, exc |-> "None", ret |-> NA]
  ELSE IF reply.present < ScorePathLen
  THEN [sent |-> TRUE, exc |-> "None", ret |-> NA]
  ELSE IF reply.score = None
  THEN [sent |-> TRUE, exc |-> "TypeError", ret |-> None]
  ELSE [sent |-> TRUE, exc |-> "None", ret |-> Num(reply.score[2] * 100)]

\* reply: [status, matches]: matches is "absent", "empty" or "some".
scan_for_malware(u, reply) ==
  IF reply.status \in RequestException THEN ScanFailed
  ELSE IF reply.matches = "some" THEN MalwareFound
  ELSE NoMalwareDetected

\* status: an element of HttpStatuses. A URL with no host raises InvalidURL
\* before anything is sent.
check_uptime(u, status) ==
  IF HostOf(u) = << >>
  THEN [sent |-> FALSE, ret |-> Span(Red, Error)]
  ELSE IF status \in RequestException
  THEN [sent |-> TRUE, ret |-> Span(Red, Error)]
  ELSE [sent |-> TRUE, ret |-> Span(Green, Online)]

---------------------------------------------------------------------------
(* The report's component rows. *)

\* The characters of the model in the order of their code points.
CodePointOrder ==
  << " ", "#", "-", ".", "/", "0", "1", "2", "3", "4", "5", "6", "7", "8", "9",
     ":", "@" >> \o UpperChars \o << "_" >> \o LowerChars

Ord(ch) == CHOOSE j \in 1..Len(CodePointOrder) : CodePointOrder[j] = ch

RECURSIVE StrLess(_, _)
\* a < b on str: the first differing character decides, a proper prefix is less.
StrLess(a, b) ==
  IF b = << >> THEN FALSE
  ELSE IF a = << >> THEN TRUE
  ELSE IF Head(a) = Head(b) THEN StrLess(Tail(a), Tail(b))
  ELSE Ord(Head(a)) < Ord(Head(b))

\* A comparison that also flags an equal version.
ComponentRow_flags_equal(comp, default_name) ==
  [name |-> GetOr(comp.name, default_name),
   installed_version |-> comp.version,
   version_color |->
     IF comp.latest_version # Unknown /\ ~StrLess(comp.latest_version, comp.version)
     THEN UpdateColor ELSE Black,
   latest_version_display |->
     IF comp.latest_version = Unknown THEN Span(Red, Unknown) ELSE comp.latest_version]

\* One <tr> of a plugins or themes table. default_name is the name shown for a
\* component with no 'name' key.
ComponentRow(comp, default_name) ==
  [name |-> GetOr(comp.name, default_name),
   installed_version |-> comp.version,
   version_color |->
     IF comp.latest_version # Unknown /\ StrLess(comp.version, comp.latest_version)
     THEN UpdateColor ELSE Black,
   latest_version_display |->
     IF comp.latest_version = Unknown THEN Span(Red, Unknown) ELSE comp.latest_version]

\* One <tr> of the summary table.
SummaryRow(result) ==
  [url |-> result.url, php_version |-> result.php_version,
   wp_version |-> result.wp_version, color |-> result.ssl_expiry_color,
   ssl_status |-> result.ssl_status, ssl_expiry_date |-> result.ssl_expiry_date,
   performance_score |-> result.performance_score,
   malware_scan |-> result.malware_scan, uptime_status |-> result.uptime_status,
   checked_at |-> result.checked_at]

\* Whether rendering the component tables of result raises KeyError: a row
\* reads plugin['version'], theme['name'] and theme['version'].
RowsRaise(result) ==
  \/ \E j \in 1..Len(result.plugins) : result.plugins[j].version = Absent
  \/ \E j \in 1..Len(result.themes) :
       result.themes[j].name = Absent \/ result.themes[j].version = Absent

---------------------------------------------------------------------------
(* The state before main() has read anything. *)

Blank ==
  /\ exc = "None"
  /\ env = [URLS |-> Absent, TO_EMAIL |-> Absent]
  /\ urls = << >>
  /\ to_emails = << >>
  /\ i = 0
  /\ url = Absent
  /\ php_version = Absent
  /\ wp_version = Absent
  /\ plugins = << >>
  /\ themes = << >>
  /\ k = 0
  /\ c = 0
  /\ ssl_status = Absent
  /\ ssl_expiry_date = Absent
  /\ ssl_expiry_color = Absent
  /\ performance_score = Absent
  /\ malware_scan = Absent
  /\ uptime_status = Absent
  /\ checked_at = Absent
  /\ results = << >>
  /\ now = 0
  /\ requests = << >>
  /\ email_body = [sites |-> << >>, plugins |-> << >>, themes |-> << >>]
  /\ smtp = << >>
  /\ last = [op |-> "none"]

conf == << env, urls, to_emails >>
inspected == << php_version, wp_version, plugins, themes >>
cursor == << k, name, slugs, c >>
health == << ssl_status, ssl_expiry_date, ssl_expiry_color, performance_score,
             malware_scan, uptime_status >>
output == << checked_at, results, email_body, smtp >>

\* An exception leaves main(): the process ends with a traceback.
Raise(e) == pc' = "crashed" /\ exc' = e

\* One request: its kind, the site (index i of the loop) and the plugin or theme
\* (index n in its list, 0 for a request about the site) it is made for, what
\* it asks about, and what its caller got out of the reply (Absent: nothing).
Request(kind, n, arg, got) ==
  [kind |-> kind, i |-> i, k |-> n, arg |-> arg, got |-> got]

Init ==
  /\ pc = "start"
  /\ name = Absent
  /\ slugs = << >>
  /\ Blank

---------------------------------------------------------------------------
(* main(), one statement or call at a time.  W, the world, gives for each   *)
(* value read from the environment and each reply of the network the set   *)
(* it is drawn from.                                                       *)

\* Lines 367-372. os.getenv gives None for a variable that is not set, and
\* None has no split: the first missing one ends the process.
ReadConfig(W) ==
  /\ pc = "start"
  /\ \E U \in W.URLS, T \in W.TO_EMAIL :
       IF U = None
       THEN /\ env' = [URLS |-> None, TO_EMAIL |-> Absent]
            /\ Raise("AttributeError")
            /\ UNCHANGED << urls, to_emails, i >>
       ELSE IF T = None
       THEN /\ env' = [URLS |-> U, TO_EMAIL |-> None]
            /\ urls' = Split(U, << "," >>)
            /\ Raise("AttributeError")
            /\ UNCHANGED << to_emails, i >>
       ELSE /\ env' = [URLS |-> U, TO_EMAIL |-> T]
            /\ urls' = Split(U, << "," >>)
            /\ to_emails' = Split(T, << "," >>)
            /\ i' = 1
            /\ pc' = "loop"
            /\ exc' = exc
  /\ last' = [op |-> "getenv"]
  /\ UNCHANGED << url, inspected, cursor, health, output, now, requests >>

\* Lines 374-376: the head of "for url in urls".
LoopHead ==
  /\ pc = "loop"
  /\ IF i <= Len(urls)
     THEN /\ url' = add_scheme(Strip(urls[i]))
          /\ pc' = "get_versions"
     ELSE /\ pc' = "report"
          /\ url' = url
  /\ last' = [op |-> "for"]
  /\ UNCHANGED << exc, conf, i, inspected, cursor, health, output, now, requests >>

\* Where get_versions goes on after the plugin at index j (0: before the first)
\* of the plugins ps, the themes being ts.
AfterPlugin(j, ps, ts) ==
  IF j < Len(ps) THEN "plugin_header"
  ELSE IF ts # << >> THEN "theme_header"
  ELSE "check_ssl"

\* Where get_versions goes on after the theme at index j.
AfterTheme(j) == IF j < Len(themes) THEN "theme_header" ELSE "check_ssl"

\* A get_versions that would catch the HTTP status errors only.
GetVersionsCatches_http_only == { "HTTPError" }

\* The exceptions get_versions catches (line 191).
GetVersionsCatches == RequestException

\* Lines 147-160 and 191-198: the fetch of version-info.php. reply.json is
\* [php_version, wp_version, plugins, themes], a str field Absent when the
\* body lacks the key; a body without 'plugins' or 'themes' is one with [].
GetVersionsFetch(W) ==
  /\ pc = "get_versions"
  /\ LET target == add_scheme(url) \o VersionInfoPath
         failed(status) ==
           /\ php_version' = Unknown
           /\ wp_version' = Unknown
           /\ plugins' = << >>
           /\ themes' = << >>
           /\ k' = k
           /\ pc' = "check_ssl"
           /\ exc' = exc
           /\ last' = [op |-> "version_info", status |-> status]
     IN IF HostOf(target) = << >>
        THEN /\ failed("InvalidURL")
             /\ requests' = requests
        ELSE \E reply \in W.version_info :
               /\ requests' = Append(requests,
                    Request("version_info", 0, target,
                            IF reply.status = "OK" THEN << "json" >> ELSE Absent))
               /\ IF reply.status \in GetVersionsCatches
                  THEN failed(reply.status)
                  ELSE IF reply.status # "OK"
                  THEN /\ Raise(reply.status)
                       /\ last' = [op |-> "version_info", status |-> reply.status]
                       /\ UNCHANGED << inspected, k >>
                  ELSE /\ php_version' = GetOr(reply.json.php_version, Unknown)
                       /\ wp_version' = GetOr(reply.json.wp_version, Unknown)
                       /\ plugins' = reply.json.plugins
                       /\ themes' = reply.json.themes
                       /\ k' = 1
                       /\ pc' = AfterPlugin(0, reply.json.plugins, reply.json.themes)
                       /\ exc' = exc
                       /\ last' = [op |-> "version_info", status |-> reply.status]
  /\ UNCHANGED << conf, i, url, name, slugs, c, health, output, now >>

\* Lines 163-165: the head of "for plugin in plugins".
PluginHeader ==
  /\ pc = "plugin_header"
  /\ IF plugins[k].name = Absent
     THEN /\ Raise("KeyError")
          /\ UNCHANGED << name, slugs, c >>
     ELSE /\ name' = plugins[k].name
          /\ slugs' = generate_slugs(plugins[k].name)
          /\ c' = 1
          /\ pc' = "plugin_lookup"
          /\ exc' = exc
  /\ last' = [op |-> "plugin"]
  /\ UNCHANGED << conf, i, url, inspected, k, health, output, now, requests >>

\* Lines 166-171: one turn of "for slug in generate_slugs(plugin_name)", with
\* the for's else when the candidates are used up.
PluginLookup(W) ==
  /\ pc = "plugin_lookup"
  /\ \E reply \in W.directory :
       LET info == fetch_wp_directory(slugs[c], "plugin", reply)
       IN /\ requests' =
               IF info.sent
               THEN Append(requests, Request("plugin_information", k, slugs[c],
                             IF HasVersion(info) THEN info.json.version ELSE Absent))
               ELSE requests
          /\ last' = [op |-> "directory", sent |-> info.sent,
                      found |-> HasVersion(info)]
          /\ IF HasVersion(info)
             THEN /\ plugins' = [plugins EXCEPT ![k].latest_version = info.json.version]
                  /\ k' = IF k < Len(plugins) THEN k + 1 ELSE 1
                  /\ c' = c
                  /\ pc' = AfterPlugin(k, plugins, themes)
             ELSE IF c < Len(slugs)
             THEN /\ c' = c + 1
                  /\ UNCHANGED << plugins, k, pc >>
             ELSE /\ plugins' = [plugins EXCEPT ![k].latest_version = Unknown]
                  /\ k' = IF k < Len(plugins) THEN k + 1 ELSE 1
                  /\ c' = c
                  /\ pc' = AfterPlugin(k, plugins, themes)
  /\ UNCHANGED << exc, conf, i, url, php_version, wp_version, themes, name, slugs,
                  health, output, now >>

\* theme_name.lower() in ['avada', 'avada child']
PremiumThemes == { <<"a","v","a","d","a">>,
                   <<"a","v","a","d","a"," ","c","h","i","l","d">> }

\* A fallback copied from the plugin path.
PremiumLatest_unknown(theme_info, theme) ==
  IF Truthy(theme_info) THEN theme_info ELSE Unknown

\* A fallback forgotten.
PremiumLatest_no_fallback(theme_info, theme) == theme_info

\* Line 181: theme_info if theme_info else theme['version']
PremiumLatest(theme_info, theme) ==
  IF Truthy(theme_info) THEN theme_info ELSE theme.version

\* Lines 174-183: the head of "for theme in themes", and for a premium theme
\* the whole turn. reply is [status, theme_latest, plugin_latest].
ThemeHeader(W) ==
  /\ pc = "theme_header"
  /\ IF themes[k].name = Absent
     THEN /\ Raise("KeyError")
          /\ last' = [op |-> "theme"]
          /\ UNCHANGED << themes, k, name, slugs, c, requests >>
     ELSE IF Lower(themes[k].name) \in PremiumThemes
     THEN \E reply \in W.envato :
            LET asks == Lower(themes[k].name) = <<"a","v","a","d","a">>
                theme_info == IF asks THEN fetch_envato_version(EnvatoAvadaId, reply)
                              ELSE None
            IN /\ name' = themes[k].name
               /\ requests' =
                    IF asks
                    THEN Append(requests, Request("item_version", k, EnvatoAvadaId,
                                  IF Truthy(theme_info) THEN theme_info ELSE Absent))
                    ELSE requests
               /\ last' = [op |-> "envato", sent |-> asks, theme_info |-> theme_info]
               /\ IF ~Truthy(theme_info) /\ themes[k].version = Absent
                  THEN /\ Raise("KeyError")
                       /\ UNCHANGED << themes, k >>
                  ELSE /\ themes' = [themes EXCEPT ![k].latest_version =
                                       PremiumLatest(theme_info, themes[k])]
                       /\ k' = IF k < Len(themes) THEN k + 1 ELSE 1
                       /\ pc' = AfterTheme(k)
                       /\ exc' = exc
               /\ UNCHANGED << slugs, c >>
     ELSE /\ name' = themes[k].name
          /\ slugs' = generate_slugs(themes[k].name)
          /\ c' = 1
          /\ pc' = "theme_lookup"
          /\ exc' = exc
          /\ last' = [op |-> "theme"]
          /\ UNCHANGED << themes, k, requests >>
  /\ UNCHANGED << conf, i, url, php_version, wp_version, plugins, health, output, now >>

\* Lines 183-189: one turn of "for slug in generate_slugs(theme_name)", with
\* the for's else when the candidates are used up.
ThemeLookup(W) ==
  /\ pc = "theme_lookup"
  /\ \E reply \in W.directory :
       LET info == fetch_wp_directory(slugs[c], "theme", reply)
       IN /\ requests' =
               IF info.sent
               THEN Append(requests, Request("theme_information", k, slugs[c],
                             IF HasVersion(info) THEN info.json.version ELSE Absent))
               ELSE requests
          /\ last' = [op |-> "directory", sent |-> info.sent,
                      found |-> HasVersion(info)]
          /\ IF HasVersion(info)
             THEN /\ themes' = [themes EXCEPT ![k].latest_version = info.json.version]
                  /\ k' = IF k < Len(themes) THEN k + 1 ELSE 1
                  /\ c' = c
                  /\ pc' = AfterTheme(k)
             ELSE IF c < Len(slugs)
             THEN /\ c' = c + 1
                  /\ UNCHANGED << themes, k, pc >>
             ELSE /\ themes' = [themes EXCEPT ![k].latest_version = Unknown]
                  /\ k' = IF k < Len(themes) THEN k + 1 ELSE 1
                  /\ c' = c
                  /\ pc' = AfterTheme(k)
  /\ UNCHANGED << exc, conf, i, url, php_version, wp_version, plugins, name, slugs,
                  health, output, now >>

\* Lines 382-403: check_ssl_certificate and the classification of its result.
CheckSsl(W) ==
  /\ pc = "check_ssl"
  /\ \E probe \in W.tls :
       LET r == check_ssl_certificate(url, probe, now)
           f == SslFields(r.ssl_valid, r.ssl_info, now)
       IN /\ requests' = IF r.sent
                         THEN Append(requests, Request("tls", 0, HostOf(url),
                                IF r.ssl_valid THEN << "cert" >> ELSE Absent))
                         ELSE requests
          /\ ssl_status' = f.ssl_status
          /\ ssl_expiry_date' = f.ssl_expiry_date
          /\ ssl_expiry_color' = f.ssl_expiry_color
          /\ last' = [op |-> "tls", ssl_valid |-> r.ssl_valid, ssl_info |-> r.ssl_info]
  /\ pc' = "performance"
  /\ UNCHANGED << exc, conf, i, url, inspected, cursor, performance_score,
                  malware_scan, uptime_status, output, now >>

\* Line 406: get_performance_metrics(url). PAGE_SPEED_API_KEY is read from the
\* environment at each call.
Performance(W) ==
  /\ pc = "performance"
  /\ \E api_key \in W.PAGE_SPEED_API_KEY, reply \in W.pagespeed :
       LET r == get_performance_metrics(url, api_key, reply)
       IN /\ requests' = IF r.sent
                         THEN Append(requests, Request("pagespeed", 0, add_scheme(url),
                                IF r.ret = NA \/ r.exc # "None" THEN Absent ELSE << "score" >>))
                         ELSE requests
          /\ last' = [op |-> "pagespeed", api_key |-> api_key, sent |-> r.sent,
                      status |-> IF r.sent THEN reply.status ELSE "none",
                      present |-> IF r.sent /\ reply.status = "OK" THEN reply.present ELSE 0,
                      score |-> IF r.sent /\ reply.status = "OK" /\ reply.present = ScorePathLen
                                THEN reply.score ELSE None]
          /\ IF r.exc # "None"
             THEN /\ Raise(r.exc)
                  /\ performance_score' = performance_score
             ELSE /\ performance_score' = r.ret
                  /\ pc' = "malware"
                  /\ exc' = exc
  /\ UNCHANGED << conf, i, url, inspected, cursor, ssl_status, ssl_expiry_date,
                  ssl_expiry_color, malware_scan, uptime_status, output, now >>

\* Line 409: scan_for_malware(url).
Malware(W) ==
  /\ pc = "malware"
  /\ \E reply \in W.safebrowsing :
       /\ malware_scan' = scan_for_malware(url, reply)
       /\ requests' = Append(requests, Request("safebrowsing", 0, url,
                        IF reply.status = "OK" THEN << "json" >> ELSE Absent))
       /\ last' = [op |-> "safebrowsing", status |-> reply.status,
                   matches |-> IF reply.status = "OK" THEN reply.matches ELSE "absent"]
  /\ pc' = "uptime"
  /\ UNCHANGED << exc, conf, i, url, inspected, cursor, ssl_status, ssl_expiry_date,
                  ssl_expiry_color, performance_score, uptime_status, output, now >>

\* Line 412: check_uptime(url).
Uptime(W) ==
  /\ pc = "uptime"
  /\ \E status \in W.uptime :
       LET r == check_uptime(url, status)
       IN /\ uptime_status' = r.ret
          /\ requests' = IF r.sent
                         THEN Append(requests, Request("uptime", 0, url,
                                IF status = "OK" THEN << "ok" >> ELSE Absent))
                         ELSE requests
          /\ last' = [op |-> "uptime", status |-> IF r.sent THEN status ELSE "InvalidURL"]
  /\ pc' = "append"
  /\ UNCHANGED << exc, conf, i, url, inspected, cursor, ssl_status, ssl_expiry_date,
                  ssl_expiry_color, performance_score, malware_scan, output, now >>

\* Lines 415-432: stamp the time, build the site's result, append it.
\* An append that puts the newest result first.
AppendResult_prepends ==
  /\ pc = "append"
  /\ checked_at' = FormatTime(now)
  /\ results' = << [url |-> url, php_version |-> php_version, wp_version |-> wp_version,
        plugins |-> plugins, themes |-> themes,
        performance_score |-> performance_score, malware_scan |-> malware_scan,
        ssl_status |-> ssl_status, ssl_expiry_date |-> ssl_expiry_date,
        ssl_expiry_color |-> ssl_expiry_color, uptime_status |-> uptime_status,
        checked_at |-> FormatTime(now)] >> \o results
  /\ pc' = "sleep"
  /\ last' = [op |-> "append"]
  /\ UNCHANGED << exc, conf, i, url, inspected, cursor, health, email_body, smtp,
                  now, requests >>

AppendResult ==
  /\ pc = "append"
  /\ checked_at' = FormatTime(now)
  /\ results' = Append(results,
       [url |-> url, php_version |-> php_version, wp_version |-> wp_version,
        plugins |-> plugins, themes |-> themes,
        performance_score |-> performance_score, malware_scan |-> malware_scan,
        ssl_status |-> ssl_status, ssl_expiry_date |-> ssl_expiry_date,
        ssl_expiry_color |-> ssl_expiry_color, uptime_status |-> uptime_status,
        checked_at |-> FormatTime(now)])
  /\ pc' = "sleep"
  /\ last' = [op |-> "append"]
  /\ UNCHANGED << exc, conf, i, url, inspected, cursor, health, email_body, smtp,
                  now, requests >>

\* Line 434: time.sleep(5), then on to the next url.
Sleep ==
  /\ pc = "sleep"
  /\ now' = now + SleepSeconds
  /\ i' = i + 1
  /\ pc' = "loop"
  /\ last' = [op |-> "sleep"]
  /\ UNCHANGED << exc, conf, url, inspected, cursor, health, output, requests >>

\* Lines 436-553: the report: the summary row of every site, then every
\* site's plugin rows and theme rows.
BuildReport ==
  /\ pc = "report"
  /\ IF \E j \in 1..Len(results) : RowsRaise(results[j])
     THEN /\ Raise("KeyError")
          /\ email_body' = email_body
     ELSE /\ email_body' =
               [sites |-> [j \in 1..Len(results) |-> SummaryRow(results[j])],
                plugins |-> [j \in 1..Len(results) |->
                   [n \in 1..Len(results[j].plugins) |->
                      ComponentRow(results[j].plugins[n], Unknown)]],
                themes |-> [j \in 1..Len(results) |->
                   [n \in 1..Len(results[j].themes) |->
                      ComponentRow(results[j].themes[n], Absent)]]]
          /\ pc' = "send_email"
          /\ exc' = exc
  /\ last' = [op |-> "report"]
  /\ UNCHANGED << conf, i, url, inspected, cursor, health, checked_at, results, smtp,
                  now, requests >>

Digits == { "0", "1", "2", "3", "4", "5", "6", "7", "8", "9" }

\* The exception int(v) raises, or "None": v is None, or a str.
IntRaises(v) ==
  IF v = None THEN "TypeError"
  ELSE IF v = << >> \/ \E j \in 1..Len(v) : v[j] \notin Digits THEN "ValueError"
  ELSE "None"

\* The SMTP calls of send_email, in the order it makes them.
SmtpCalls == << "SMTP", "starttls", "login", "sendmail", "quit" >>

\* The exceptions send_email catches (line 357): except Exception.
SendEmailCatches == ExceptionTypes

\* An except clause that names the SMTP errors only.
send_email_catches_smtp_only(port, fail_at) ==
  LET raised == IF IntRaises(port) # "None" THEN IntRaises(port)
                ELSE IF fail_at = 0 THEN "None"
                ELSE IF fail_at = 1 THEN "OSError" ELSE "SMTPException"
  IN [calls |-> IF IntRaises(port) # "None" THEN << >>
                ELSE IF fail_at = 0 THEN SmtpCalls
                ELSE SubSeq(SmtpCalls, 1, fail_at),
      raised |-> raised,
      logged |-> IF raised = "None" THEN "info"
                 ELSE IF raised \in { "SMTPException" } THEN "error" ELSE "nothing",
      exc |-> IF raised \in { "SMTPException", "None" } THEN "None" ELSE raised]

\* send_email: port is the value of SMTP_PORT; fail_at is the index in
\* SmtpCalls of the call that raises, 0 when none does. The result: calls, the
\* SMTP calls made; raised, the exception raised inside the try; logged, the
\* level of the line it logs; exc, the exception that leaves the function
\* ("None": it returned).
send_email(port, fail_at) ==
  LET raised == IF IntRaises(port) # "None" THEN IntRaises(port)
                ELSE IF fail_at = 0 THEN "None"
                ELSE IF fail_at = 1 THEN "OSError" ELSE "SMTPException"
  IN [calls |-> IF IntRaises(port) # "None" THEN << >>
                ELSE IF fail_at = 0 THEN SmtpCalls
                ELSE SubSeq(SmtpCalls, 1, fail_at),
      raised |-> raised,
      logged |-> IF raised = "None" THEN "info"
                 ELSE IF raised \in SendEmailCatches THEN "error" ELSE "nothing",
      exc |-> IF raised \in SendEmailCatches \cup { "None" } THEN "None" ELSE raised]

\* Line 556: send_email(email_subject, email_body, to_emails), then main returns.
SendEmail(W) ==
  /\ pc = "send_email"
  /\ \E port \in W.SMTP_PORT, fail_at \in W.smtp_fail_at :
       LET r == send_email(port, fail_at)
       IN /\ smtp' = smtp \o [j \in 1..Len(r.calls) |-> [call |-> r.calls[j],
                                                           to |-> to_emails]]
          /\ last' = [op |-> "send_email", port |-> port, raised |-> r.raised,
                      logged |-> r.logged]
          /\ IF r.exc # "None"
             THEN Raise(r.exc)
             ELSE pc' = "exit" /\ exc' = exc
  /\ UNCHANGED << conf, i, url, inspected, cursor, health, checked_at, results,
                  email_body, now, requests >>

\* One step of the process in the world W.
Step(W) ==
  \/ ReadConfig(W)
  \/ LoopHead
  \/ GetVersionsFetch(W)
  \/ PluginHeader
  \/ PluginLookup(W)
  \/ ThemeHeader(W)
  \/ ThemeLookup(W)
  \/ CheckSsl(W)
  \/ Performance(W)
  \/ Malware(W)
  \/ Uptime(W)
  \/ AppendResult
  \/ Sleep
  \/ BuildReport
  \/ SendEmail(W)

---------------------------------------------------------------------------
(* The values the worlds are built from. *)

YoastSEO == <<"Y","o","a","s","t"," ","S","E","O">>
HelloDolly == <<"H","e","l","l","o"," ","D","o","l","l","y">>
Akismet == <<"A","k","i","s","m","e","t">>
Ver20 == <<"V","e","r"," ","2",".","0">>
AvadaBuilder == <<"A","v","a","d","a"," ","B","u","i","l","d","e","r">>
Avada == <<"A","v","a","d","a">>
AvadaUpper == <<"A","V","A","D","A">>
AvadaChild == <<"A","v","a","d","a"," ","C","h","i","l","d">>
TwentyTwentyFour == <<"T","w","e","n","t","y"," ","T","w","e","n","t","y","-","F","o","u","r">>
Astra == <<"A","s","t","r","a">>
WordpressSeo == <<"w","o","r","d","p","r","e","s","s","-","s","e","o">>

V1_0 == <<"1",".","0">>
V9_0 == <<"9",".","0">>
V10_0 == <<"1","0",".","0">>
V20_1 == <<"2","0",".","1">>
V22_0 == <<"2","2",".","0">>
V7_11 == <<"7",".","1","1">>
V7_12 == <<"7",".","1","2">>
Php8_1 == <<"8",".","1">>
Wp6_4 == <<"6",".","4">>

SiteA == <<"a",".","p","l">>
SiteB == <<"h","t","t","p",":","/","/","b",".","p","l">>
Recipient == <<"o","@","a",".","p","l">>
ApiKey == <<"k","e","y">>
Port587 == <<"5","8","7">>
PortAbc == <<"a","b","c">>

\* An entry {name, version} of the plugins or themes list of version-info.php,
\* as the site sends it: no latest_version yet.
Comp(n, v) == [name |-> n, version |-> v, latest_version |-> Absent]

Info(php, wp, ps, ts) ==
  [status |-> "OK",
   json |-> [php_version |-> php, wp_version |-> wp, plugins |-> ps, themes |-> ts]]

InfoFails(status) ==
  [status |-> status,
   json |-> [php_version |-> Absent, wp_version |-> Absent,
             plugins |-> << >>, themes |-> << >>]]

DirReply(status, version, other) ==
  [status |-> status, version |-> version, other |-> other]

EnvatoReply(status, theme_latest, plugin_latest) ==
  [status |-> status, theme_latest |-> theme_latest, plugin_latest |-> plugin_latest]

PageSpeedReply(status, present, score) ==
  [status |-> status, present |-> present, score |-> score]

RECURSIVE JoinComma(_)
\* ",".join(entries)
JoinComma(entries) ==
  IF Len(entries) = 1 THEN Head(entries)
  ELSE Head(entries) \o << "," >> \o JoinComma(Tail(entries))

\* The entries a configured site list is made of: a blank one, a host, a URL.
UrlEntries == { << " " >>, SiteA, SiteB }

---------------------------------------------------------------------------
(* Spec: the whole run over a site list of up to MaxSites entries, set or   *)
(* not; version-info.php, the directory, the marketplace, the performance  *)
(* API and the mail server each answer well or badly.                      *)

World ==
  [URLS |-> { None, << >> }
              \cup { JoinComma(es) : es \in UNION { [1..n -> UrlEntries] : n \in 1..MaxSites } },
   TO_EMAIL |-> { None, Recipient },
   version_info |->
     { InfoFails("ConnectionError"),
       Info(Php8_1, Wp6_4, << Comp(YoastSEO, V20_1) >>, << Comp(Astra, V1_0) >>),
       Info(Php8_1, Wp6_4, << >>, << Comp(Avada, V7_11) >>),
       Info(Php8_1, Wp6_4, << Comp(Absent, V1_0) >>, << >>) },
   directory |-> { DirReply("HTTPError", Absent, FALSE), DirReply("OK", V22_0, TRUE) },
   envato |-> { EnvatoReply("HTTPError", Absent, Absent),
                EnvatoReply("OK", V7_12, Absent) },
   tls |-> { [handshake |-> TRUE, delta |-> 45 * SecondsPerDay] },
   PAGE_SPEED_API_KEY |-> { ApiKey },
   pagespeed |-> { PageSpeedReply("OK", ScorePathLen, Num(90)),
                   PageSpeedReply("OK", ScorePathLen, None) },
   safebrowsing |-> { [status |-> "OK", matches |-> "empty"] },
   uptime |-> { "OK" },
   SMTP_PORT |-> { Port587 },
   smtp_fail_at |-> { 0, 1 }]

Next == Step(World)

Spec == Init /\ [][Next]_vars

---------------------------------------------------------------------------
(* SpecInspect: one site, every shape of version-info.php and every reply   *)
(* of the directory and of the marketplace; the other calls succeed.       *)

InspectPlugins ==
  { << >>,
    << Comp(YoastSEO, V20_1) >>, << Comp(YoastSEO, V9_0) >>, << Comp(YoastSEO, V22_0) >>,
    << Comp(HelloDolly, V1_0) >>, << Comp(Akismet, V1_0) >>, << Comp(Ver20, V1_0) >>,
    << Comp(AvadaBuilder, V1_0) >>,
    << Comp(Absent, V1_0) >>, << Comp(HelloDolly, Absent) >>,
    << Comp(YoastSEO, V20_1), Comp(HelloDolly, V1_0) >> }

InspectThemes ==
  { << >>,
    << Comp(Avada, V7_11) >>, << Comp(AvadaUpper, V7_11) >>, << Comp(AvadaChild, V1_0) >>,
    << Comp(TwentyTwentyFour, V1_0) >>, << Comp(Astra, V1_0) >>,
    << Comp(Absent, V1_0) >>, << Comp(Avada, Absent) >>, << Comp(Astra, Absent) >>,
    << Comp(Avada, V7_11), Comp(Astra, V1_0) >> }

WorldInspect ==
  [URLS |-> { SiteA },
   TO_EMAIL |-> { Recipient },
   version_info |->
     { InfoFails("ConnectionError"), InfoFails("HTTPError"),
       Info(Absent, Absent, << >>, << >>) }
       \cup { Info(Php8_1, Wp6_4, ps, ts) : ps \in InspectPlugins, ts \in InspectThemes },
   directory |-> { DirReply("ConnectionError", Absent, FALSE),
                   DirReply("HTTPError", Absent, FALSE),
                   DirReply("OK", Absent, FALSE),
                   DirReply("OK", Absent, TRUE),
                   DirReply("OK", V22_0, TRUE),
                   DirReply("OK", V10_0, TRUE) },
   envato |-> { EnvatoReply("ConnectionError", Absent, Absent),
                EnvatoReply("HTTPError", Absent, Absent),
                EnvatoReply("OK", Absent, Absent),
                EnvatoReply("OK", << >>, Absent),
                EnvatoReply("OK", V7_12, Absent),
                EnvatoReply("OK", Absent, V7_12) },
   tls |-> { [handshake |-> TRUE, delta |-> 45 * SecondsPerDay] },
   PAGE_SPEED_API_KEY |-> { ApiKey },
   pagespeed |-> { PageSpeedReply("OK", ScorePathLen, Num(90)) },
   safebrowsing |-> { [status |-> "OK", matches |-> "empty"] },
   uptime |-> { "OK" },
   SMTP_PORT |-> { Port587 },
   smtp_fail_at |-> { 0 }]

NextInspect == Step(WorldInspect)

SpecInspect == Init /\ [][NextInspect]_vars

---------------------------------------------------------------------------
(* SpecHealth: one site, every outcome of the TLS probe, of the three       *)
(* health requests and of sending the report; version-info.php fails or    *)
(* names one plugin and one theme.                                         *)

WorldHealth ==
  [URLS |-> { SiteA, SiteB },
   TO_EMAIL |-> { Recipient },
   version_info |->
     { InfoFails("HTTPError"),
       Info(Php8_1, Wp6_4, << Comp(YoastSEO, V20_1) >>, << Comp(TwentyTwentyFour, V1_0) >>) },
   directory |-> { DirReply("OK", V22_0, TRUE) },
   envato |-> { EnvatoReply("OK", V7_12, Absent) },
   tls |-> { [handshake |-> FALSE, delta |-> 45 * SecondsPerDay] }
             \cup { [handshake |-> TRUE, delta |-> d] :
                      d \in { 0 - SecondsPerDay - 1, 0 - 1, 0, SecondsPerDay - 1,
                              SecondsPerDay, 10 * SecondsPerDay,
                              30 * SecondsPerDay + SecondsPerDay - 1,
                              31 * SecondsPerDay, 45 * SecondsPerDay } },
   PAGE_SPEED_API_KEY |-> { None, << >>, ApiKey },
   pagespeed |-> { PageSpeedReply("ConnectionError", 0, None),
                   PageSpeedReply("HTTPError", 0, None) }
                   \cup { PageSpeedReply("OK", n, None) : n \in 0..ScorePathLen }
                   \cup { PageSpeedReply("OK", ScorePathLen, Num(h)) : h \in { 0, 90, 100 } },
   safebrowsing |-> { [status |-> "ConnectionError", matches |-> "absent"],
                      [status |-> "HTTPError", matches |-> "absent"],
                      [status |-> "OK", matches |-> "absent"],
                      [status |-> "OK", matches |-> "empty"],
                      [status |-> "OK", matches |-> "some"] },
   uptime |-> HttpStatuses,
   SMTP_PORT |-> { None, PortAbc, Port587 },
   smtp_fail_at |-> 0..Len(SmtpCalls)]

NextHealth == Step(WorldHealth)

SpecHealth == Init /\ [][NextHealth]_vars

---------------------------------------------------------------------------
(* generate_slugs on its own: one call on each display name of SlugNames. *)

SlugAlphabet == { "A", "a", "b", " ", "." }

SlugNames ==
  UNION { [1..n -> SlugAlphabet] : n \in 0..MaxNameLen }
    \cup { special_cases[j].key : j \in 1..Len(special_cases) }
    \cup { Lower(special_cases[j].key) : j \in 1..Len(special_cases) }

InitSlugs ==
  /\ pc = "generate_slugs"
  /\ name \in SlugNames
  /\ slugs = << >>
  /\ Blank

CallGenerateSlugs ==
  /\ pc = "generate_slugs"
  /\ slugs' = generate_slugs(name)
  /\ pc' = "slugs_returned"
  /\ UNCHANGED << exc, env, urls, to_emails, i, url, php_version, wp_version,
                  plugins, themes, k, name, c, ssl_status, ssl_expiry_date,
                  ssl_expiry_color, performance_score, malware_scan,
                  uptime_status, checked_at, results, now, requests,
                  email_body, smtp, last >>

NextSlugs == CallGenerateSlugs

SpecSlugs == InitSlugs /\ [][NextSlugs]_vars

---------------------------------------------------------------------------
(* Claims *)

\* The characters of s that are not ch, in order.
Without(s, ch) == SelectSeq(s, LAMBDA x : x # ch)

\* s with every ch turned into to, and every other character lower-cased.
Mapped(s, ch, to) ==
  [j \in 1..Len(s) |-> IF s[j] = ch THEN to ELSE LowerChar(s[j])]

\* C1: generate_slugs returns a non-empty list: [override] alone when the
\* name is, letter for letter, a key of the override table; otherwise the
\* four candidates, in this order: lower case with '-' for each space, with
\* '_' for each space, with the spaces removed, with '-' for each space and
\* the periods removed.
C1_SlugCandidates ==
  pc = "slugs_returned" =>
    /\ Len(slugs) >= 1
    /\ (\E j \in 1..Len(special_cases) : special_cases[j].key = name)
         => \E j \in 1..Len(special_cases) :
              /\ special_cases[j].key = name
              /\ slugs = << special_cases[j].slug >>
    /\ (\A j \in 1..Len(special_cases) : special_cases[j].key # name)
         => /\ Len(slugs) = 4
            /\ slugs[1] = Mapped(name, " ", "-")
            /\ slugs[2] = Mapped(name, " ", "_")
            /\ slugs[3] = Lower(Without(name, " "))
            /\ slugs[4] = Without(Mapped(name, " ", "-"), ".")

\* C1 witness: both cases have been returned: an override, and four
\* candidates that differ from each other for a name with a space and a period.
C1_Witness ==
  /\ pc = "slugs_returned"
  /\ name = << "A", " ", "." >>
  /\ slugs = << << "a", "-", "." >>, << "a", "_", "." >>,
                << "a", "." >>, << "a", "-" >> >>

---------------------------------------------------------------------------
(* What the claims below read off a state. *)

\* The characters a str of the model is made of.
Chars == { CodePointOrder[j] : j \in 1..Len(CodePointOrder) }

\* v is a str: made of characters, so neither None nor a key that is missing.
IsString(v) == \A j \in 1..Len(v) : v[j] \in Chars

\* get_versions has returned for the current site, whose result is not yet
\* appended: main holds what it returned.
AfterGetVersions == pc \in { "check_ssl", "performance", "malware", "uptime", "append" }

\* get_versions is running for the current site.
InGetVersions ==
  pc \in { "get_versions", "plugin_header", "plugin_lookup", "theme_header", "theme_lookup" }

\* Some request of one of the kinds was made for site j.
Asked(j, kinds) ==
  \E q \in 1..Len(requests) : requests[q].i = j /\ requests[q].kind \in kinds

\* Some request of the kind was made for the component at index n of site j.
AskedFor(j, kind, n) ==
  \E q \in 1..Len(requests) :
    requests[q].i = j /\ requests[q].kind = kind /\ requests[q].k = n

\* Some request of the kind for the component at index n of site j got got.
Got(j, kind, n, arg, got) ==
  \E q \in 1..Len(requests) :
    /\ requests[q].i = j /\ requests[q].kind = kind /\ requests[q].k = n
    /\ requests[q].arg = arg /\ requests[q].got = got

Lookups == { "plugin_information", "theme_information", "item_version" }

\* C2: Whenever get_versions has returned, every plugin and every theme it
\* returned has a latest_version that is a str, a version or "Unknown": the
\* key is never missing and the value never None, whatever the directory and
\* the marketplace answered.
LatestDefined(list) ==
  \A n \in 1..Len(list) :
    /\ list[n].latest_version # Absent
    /\ list[n].latest_version # None
    /\ IsString(list[n].latest_version)

C2_LatestVersionDefined ==
  /\ AfterGetVersions => LatestDefined(plugins) /\ LatestDefined(themes)
  /\ \A j \in 1..Len(results) :
       LatestDefined(results[j].plugins) /\ LatestDefined(results[j].themes)

\* C2 witness: get_versions has returned a plugin resolved by the directory,
\* a plugin none of whose candidates resolved, a premium theme whose
\* marketplace lookup failed and a theme resolved by the directory.
C2_Witness ==
  /\ pc = "check_ssl"
  /\ plugins = << [name |-> YoastSEO, version |-> V20_1, latest_version |-> V22_0],
                  [name |-> HelloDolly, version |-> V1_0, latest_version |-> Unknown] >>
  /\ themes = << [name |-> Avada, version |-> V7_11, latest_version |-> V7_11],
                 [name |-> Astra, version |-> V1_0, latest_version |-> V10_0] >>
  /\ Got(1, "item_version", 1, EnvatoAvadaId, Absent)

\* C3: The SSL fields of a site are decided by the TLS probe alone. After a
\* probe that read an expiry date the status is Valid and the severity is
\* green when 31 days or more remain (whole days > 30), orange when at least
\* one whole day and fewer than 31 remain, red otherwise; after a probe that
\* failed the status is Invalid, the date "N/A" and the severity red. Every
\* appended result has a severity among green, orange and red.
C3_SslFields ==
  /\ last.op = "tls" =>
       IF last.ssl_valid
       THEN /\ ssl_status = Span(Green, Valid)
            /\ ssl_expiry_date # NA
            /\ ssl_expiry_color =
                 IF last.ssl_info[2] - now >= 31 * SecondsPerDay THEN Green
                 ELSE IF last.ssl_info[2] - now >= SecondsPerDay THEN Orange
                 ELSE Red
       ELSE /\ ssl_status = Span(Red, Invalid)
            /\ ssl_expiry_date = NA
            /\ ssl_expiry_color = Red
  /\ \A j \in 1..Len(results) :
       /\ results[j].ssl_expiry_color \in { Green, Orange, Red }
       /\ results[j].ssl_status \in { Span(Green, Valid), Span(Red, Invalid) }
       /\ results[j].ssl_status = Span(Red, Invalid) =>
            results[j].ssl_expiry_date = NA /\ results[j].ssl_expiry_color = Red

\* C3 witness: a certificate with 30 days and 23:59:59 left was classified
\* orange.
C3_Witness ==
  /\ last.op = "tls"
  /\ last.ssl_valid
  /\ last.ssl_info[2] - now = 31 * SecondsPerDay - 1
  /\ ssl_expiry_color = Orange

\* C4: A resolved theme whose lower-cased name is a premium theme's has had
\* no directory lookup, and unless the marketplace gave a version for it its
\* latest_version is its own installed version, which is not "Unknown".
IsPremium(theme) == theme.name # Absent /\ Lower(theme.name) \in PremiumThemes

PremiumFallback(j, list) ==
  \A n \in 1..Len(list) :
    IsPremium(list[n]) /\ list[n].latest_version # Absent =>
      /\ ~AskedFor(j, "theme_information", n)
      /\ (~\E q \in 1..Len(requests) :
             /\ requests[q].i = j /\ requests[q].kind = "item_version"
             /\ requests[q].k = n /\ requests[q].got # Absent)
           => /\ list[n].latest_version = list[n].version
              /\ list[n].latest_version # Unknown

C4_PremiumThemeFallback ==
  /\ (InGetVersions \/ AfterGetVersions) /\ pc # "get_versions"
       => PremiumFallback(i, themes)
  /\ \A j \in 1..Len(results) : PremiumFallback(j, results[j].themes)

\* C4 witness: the marketplace lookup for Avada, installed at 7.11, failed and
\* get_versions returned it with latest_version 7.11.
C4_Witness ==
  /\ pc = "check_ssl"
  /\ themes = << [name |-> Avada, version |-> V7_11, latest_version |-> V7_11] >>
  /\ Got(1, "item_version", 1, EnvatoAvadaId, Absent)

\* C5: With the site list unset, empty or made of blank entries only, or the
\* recipient list unset, no network request is made and no mail is sent.
BadSiteList(U) ==
  \/ U = None
  \/ \A j \in 1..Len(Split(U, << "," >>)) : Strip(Split(U, << "," >>)[j]) = << >>

C5_BadConfigStopsAtStartup ==
  pc # "start" /\ (BadSiteList(env.URLS) \/ env.TO_EMAIL = None)
    => requests = << >> /\ smtp = << >>

\* C6: When the fetch of version-info.php fails, get_versions returns
\* "Unknown", "Unknown", [], [] without raising and without a directory or
\* marketplace lookup for the site, and the site's TLS, performance, malware
\* and uptime checks follow.
FetchFailed(j) ==
  \E q \in 1..Len(requests) :
    requests[q].i = j /\ requests[q].kind = "version_info" /\ requests[q].got = Absent

C6_FetchFailureDegrades ==
  /\ (InGetVersions \/ AfterGetVersions) /\ FetchFailed(i) =>
       /\ AfterGetVersions
       /\ php_version = Unknown /\ wp_version = Unknown
       /\ plugins = << >> /\ themes = << >>
       /\ ~Asked(i, Lookups)
  /\ \A j \in 1..Len(urls) : FetchFailed(j) =>
       /\ exc = "None"
       /\ ~Asked(j, Lookups)
       /\ j <= Len(results) =>
            /\ results[j].php_version = Unknown /\ results[j].wp_version = Unknown
            /\ results[j].plugins = << >> /\ results[j].themes = << >>
            /\ Asked(j, { "tls" }) /\ Asked(j, { "pagespeed" })
            /\ Asked(j, { "safebrowsing" }) /\ Asked(j, { "uptime" })

\* C6 witness: the run ended with the result of a site whose fetch failed.
C6_Witness ==
  /\ pc = "exit"
  /\ FetchFailed(1)
  /\ Len(results) = 1
  /\ results[1].php_version = Unknown
  /\ results[1].ssl_status = Span(Green, Valid)

\* C7: Whatever happens in the checks of one site, the process does not end
\* before every other configured site has its result.
C7_OtherSitesGetResults ==
  pc \in { "crashed", "exit" } /\ i >= 1
    => \A j \in 1..Len(urls) : j # i => j <= Len(results)

\* C8: get_performance_metrics never raises: without an API key it returns
\* "N/A" and sends nothing; on a failed request, a missing key of the score's
\* path or a score that is null it returns "N/A"; otherwise it returns the
\* score times 100.
C8_PerformanceNeverRaises ==
  last.op = "pagespeed" =>
    /\ pc # "crashed"
    /\ ~Truthy(last.api_key) => performance_score = NA /\ ~last.sent
    /\ Truthy(last.api_key)
         /\ (last.status # "OK" \/ last.present < ScorePathLen \/ last.score = None)
         => performance_score = NA
    /\ Truthy(last.api_key) /\ last.status = "OK" /\ last.present = ScorePathLen
         /\ last.score # None
         => performance_score = Num(last.score[2] * 100)

\* C9: Whatever step of send_email fails, SMTP_PORT unset or not a number, the
\* connection, STARTTLS, the login or the send, the failure is logged as an
\* error, send_email returns, main returns and the process exits normally; no
\* SMTP call is made twice.
SmtpCount(call) == Cardinality({ j \in 1..Len(smtp) : smtp[j].call = call })

C9_SendFailureNotFatal ==
  /\ last.op = "send_email" =>
       /\ pc = "exit"
       /\ exc = "None"
       /\ last.raised # "None" => last.logged = "error"
  /\ \A j \in 1..Len(SmtpCalls) : SmtpCount(SmtpCalls[j]) <= 1

\* C9 witness: SMTP_PORT was not set, and the process exited normally without
\* an SMTP call.
C9_Witness ==
  /\ last.op = "send_email"
  /\ last.port = None
  /\ last.raised = "TypeError"
  /\ pc = "exit"
  /\ smtp = << >>

\* a > b on str, said without recursion: at the first place where the two
\* differ a has the greater character, or b has ended.
Greater(a, b) ==
  \E q \in 1..Len(a) :
    /\ \A r \in 1..(q - 1) : r <= Len(b) /\ a[r] = b[r]
    /\ q > Len(b) \/ Ord(a[q]) > Ord(b[q])

\* C10: A row of the report is highlighted as update-available exactly when
\* its latest_version is not "Unknown" and is greater, as a str, than its
\* installed version; a row whose latest_version is "Unknown" shows it in red
\* and is not highlighted. Yoast SEO installed at 20.1, for which the directory
\* answered 22.0 under the slug wordpress-seo, has the row Yoast SEO, 20.1,
\* 22.0, highlighted.
RowsRight(rows, list) ==
  /\ Len(rows) = Len(list)
  /\ \A n \in 1..Len(list) :
       /\ rows[n].installed_version = list[n].version
       /\ rows[n].version_color = UpdateColor
            <=> /\ list[n].latest_version # Unknown
                /\ Greater(list[n].latest_version, list[n].version)
       /\ rows[n].version_color \in { UpdateColor, Black }
       /\ rows[n].latest_version_display =
            IF list[n].latest_version = Unknown THEN Span(Red, Unknown)
            ELSE list[n].latest_version

YoastRow(j, n) ==
  /\ results[j].plugins[n].name = YoastSEO
  /\ results[j].plugins[n].version = V20_1
  /\ Got(j, "plugin_information", n, WordpressSeo, V22_0)

C10_UpdateAvailableRows ==
  pc \in { "send_email", "exit" } =>
    /\ Len(email_body.plugins) = Len(results)
    /\ Len(email_body.themes) = Len(results)
    /\ \A j \in 1..Len(results) :
         /\ RowsRight(email_body.plugins[j], results[j].plugins)
         /\ RowsRight(email_body.themes[j], results[j].themes)
         /\ \A n \in 1..Len(results[j].plugins) :
              YoastRow(j, n) =>
                email_body.plugins[j][n] =
                  [name |-> YoastSEO, installed_version |-> V20_1,
                   version_color |-> UpdateColor, latest_version_display |-> V22_0]

\* C10 witness: the report of the site that runs PHP 8.1 and WordPress 6.4
\* with the one plugin Yoast SEO 20.1 and no theme, the directory having
\* answered 22.0.
C10_Witness ==
  /\ pc = "exit"
  /\ Len(results) = 1
  /\ results[1].php_version = Php8_1 /\ results[1].wp_version = Wp6_4
  /\ Len(results[1].plugins) = 1 /\ results[1].themes = << >>
  /\ YoastRow(1, 1)
  /\ email_body.plugins[1][1].version_color = UpdateColor
  /\ email_body.plugins[1][1].latest_version_display = V22_0

\* The requests of one kind made for the component at index n of site j, in
\* the order they were made.
ComponentLog(j, kind, n) ==
  LET Mine(r) == r.i = j /\ r.kind = kind /\ r.k = n
  IN SelectSeq(requests, Mine)

\* The slugs a sequence of requests asked for.
Args(log) == [q \in 1..Len(log) |-> log[q].arg]

\* The candidates that are not on the exemption list, in their order.
NonExempt(cands) ==
  LET Listed(slug) == Lower(slug) \notin exempt_slugs
  IN SelectSeq(cands, Listed)

IsPrefix(a, b) == Len(a) <= Len(b) /\ a = SubSeq(b, 1, Len(a))

\* The component is resolved through the directory: a plugin, or a theme that
\* is not a premium one.
DirectoryPath(kind, comp) ==
  comp.name # Absent /\ (kind = "theme_information" => ~IsPremium(comp))

\* C11: The directory requests made for one plugin or non-premium theme are
\* its candidates that are not on the exemption list, asked in list order; an
\* exempt candidate is never asked for, whatever its case. Every request but
\* the last found no version; when the component is resolved with a version,
\* that version is what the last request found and no candidate after it was
\* asked for; when it is resolved as "Unknown", every candidate not exempt was
\* asked for and none found a version.
LookedUpInOrder(j, kind, list) ==
  \A n \in 1..Len(list) :
    DirectoryPath(kind, list[n]) /\ list[n].latest_version # Absent =>
      LET log == ComponentLog(j, kind, n)
          cands == NonExempt(generate_slugs(list[n].name))
      IN /\ IsPrefix(Args(log), cands)
         /\ \A q \in 1..(Len(log) - 1) : log[q].got = Absent
         /\ IF list[n].latest_version = Unknown
            THEN Len(log) = Len(cands) /\ \A q \in 1..Len(log) : log[q].got = Absent
            ELSE Len(log) >= 1 /\ log[Len(log)].got = list[n].latest_version

\* While the candidates of one component are being tried, those before the
\* current one have been asked for, unless exempt, and found nothing.
LookingUpInOrder(kind, list) ==
  LET log == ComponentLog(i, kind, k)
  IN /\ Args(log) = NonExempt(SubSeq(generate_slugs(list[k].name), 1, c - 1))
     /\ \A q \in 1..Len(log) : log[q].got = Absent
     /\ list[k].latest_version = Absent

C11_CandidatesInOrder ==
  /\ pc = "plugin_lookup" => LookingUpInOrder("plugin_information", plugins)
  /\ pc = "theme_lookup" => LookingUpInOrder("theme_information", themes)
  /\ (InGetVersions \/ AfterGetVersions) /\ pc # "get_versions" =>
       /\ LookedUpInOrder(i, "plugin_information", plugins)
       /\ LookedUpInOrder(i, "theme_information", themes)
  /\ \A j \in 1..Len(results) :
       /\ LookedUpInOrder(j, "plugin_information", results[j].plugins)
       /\ LookedUpInOrder(j, "theme_information", results[j].themes)
  /\ \A q \in 1..Len(requests) :
       requests[q].kind \in { "plugin_information", "theme_information" }
         => Lower(requests[q].arg) \notin exempt_slugs
  /\ \A reply \in WorldInspect.directory :
       /\ ~fetch_wp_directory(AvadaUpper, "theme", reply).sent
       /\ fetch_wp_directory(AvadaUpper, "theme", reply).is_none

\* C11 witness: for Hello Dolly the first candidate found no version, the
\* second found 22.0, and the third and fourth were not asked for.
C11_Witness ==
  /\ pc = "check_ssl"
  /\ plugins = << [name |-> HelloDolly, version |-> V1_0, latest_version |-> V22_0] >>
  /\ Args(ComponentLog(1, "plugin_information", 1)) =
       << <<"h","e","l","l","o","-","d","o","l","l","y">>,
          <<"h","e","l","l","o","_","d","o","l","l","y">> >>
  /\ ComponentLog(1, "plugin_information", 1)[1].got = Absent
  /\ ComponentLog(1, "plugin_information", 1)[2].got = V22_0

Probes == { "version_info", "tls", "pagespeed", "safebrowsing", "uptime" }

\* For each site each probe is requested at most once.
ProbesOnce ==
  \A q1, q2 \in 1..Len(requests) :
    /\ requests[q1].kind \in Probes
    /\ requests[q1].kind = requests[q2].kind
    /\ requests[q1].i = requests[q2].i
    => q1 = q2

\* C12: No request is made twice for the same purpose: for each site each
\* probe (version-info fetch, TLS connection, performance, malware, uptime) is
\* requested at most once, and for one component no directory or marketplace
\* request is made twice for the same slug and kind.
C12_NoRequestTwice ==
  /\ ProbesOnce
  /\ \A q1, q2 \in 1..Len(requests) :
       /\ requests[q1].kind \in Lookups
       /\ requests[q1].kind = requests[q2].kind
       /\ requests[q1].i = requests[q2].i
       /\ requests[q1].k = requests[q2].k
       /\ requests[q1].arg = requests[q2].arg
       => q1 = q2

\* The place of a request in the steps of one site: the Site Inspector's
\* fetch, its lookups, then the security and health checks.
Rank(kind) ==
  IF kind = "version_info" THEN 1
  ELSE IF kind \in Lookups THEN 2
  ELSE IF kind = "tls" THEN 3
  ELSE IF kind = "pagespeed" THEN 4
  ELSE IF kind = "safebrowsing" THEN 5
  ELSE 6

\* The url main normalizes the entry at index j of the site list to.
Normalized(j) == add_scheme(Strip(urls[j]))

NoReport == email_body = [sites |-> << >>, plugins |-> << >>, themes |-> << >>]

\* What holds in every state of a run.
SitesInOrder ==
  /\ Len(results) <= Len(urls)
  /\ \A j \in 1..Len(results) : results[j].url = Normalized(j)
  /\ \A q \in 1..Len(requests) :
       /\ requests[q].i = Len(results) + 1 \/ requests[q].i <= Len(results)
       /\ requests[q].kind = "version_info"
            => requests[q].arg = Normalized(requests[q].i) \o VersionInfoPath
       /\ requests[q].kind = "uptime" => requests[q].arg = Normalized(requests[q].i)
       /\ q < Len(requests) =>
            \/ requests[q].i < requests[q + 1].i
            \/ /\ requests[q].i = requests[q + 1].i
               /\ Rank(requests[q].kind) <= Rank(requests[q + 1].kind)
  /\ ProbesOnce
  /\ pc \in { "report", "send_email", "exit" } => Len(results) = Len(urls)
  /\ ~NoReport \/ smtp # << >> =>
       /\ pc \in { "send_email", "exit" }
       /\ Len(email_body.sites) = Len(urls)
       /\ \A j \in 1..Len(urls) : email_body.sites[j] = SummaryRow(results[j])
  /\ smtp # << >> => pc = "exit"
  /\ pc = "exit" => smtp # << >> /\ SmtpCount("SMTP") = 1 /\ SmtpCount("sendmail") <= 1

\* What holds of every step of a run.
StepsInOrder ==
  /\ \A j \in 1..Len(results) : Len(results') >= j /\ results'[j] = results[j]
  /\ requests' # requests =>
       /\ results' = results
       /\ Len(requests') = Len(requests) + 1
       /\ requests'[Len(requests')].i = Len(results) + 1
       /\ NoReport /\ smtp = << >>
  /\ results' # results =>
       /\ Len(results') = Len(results) + 1
       /\ results'[Len(results')] =
            [url |-> Normalized(Len(results) + 1),
             php_version |-> php_version, wp_version |-> wp_version,
             plugins |-> plugins, themes |-> themes,
             performance_score |-> performance_score, malware_scan |-> malware_scan,
             ssl_status |-> ssl_status, ssl_expiry_date |-> ssl_expiry_date,
             ssl_expiry_color |-> ssl_expiry_color, uptime_status |-> uptime_status,
             checked_at |-> FormatTime(now)]
       /\ checked_at' = FormatTime(now)
       /\ requests' = requests /\ now' = now
       /\ NoReport /\ smtp = << >>
  /\ now' # now =>
       /\ now' = now + SleepSeconds
       /\ Len(results) = i /\ i' = i + 1
       /\ results' = results /\ requests' = requests
  /\ i' # i /\ i >= 1 => now' # now
  /\ email_body' # email_body =>
       /\ NoReport /\ smtp = << >> /\ smtp' = smtp
       /\ Len(results) = Len(urls) /\ results' = results
  /\ smtp' # smtp =>
       /\ smtp = << >> /\ ~NoReport /\ email_body' = email_body
       /\ Len(results) = Len(urls) /\ results' = results
       /\ \A j \in 1..Len(smtp') : smtp'[j].to = to_emails

\* C13: The sites are processed one after another in the order of the site
\* list: every request is made for the site after the last one appended, the
\* requests of one site follow the order fetch, lookups, TLS, performance,
\* malware, uptime, then the result is stamped and appended with the
\* normalized url of its entry, then the delay passes and the next site
\* begins. An appended result never changes. Once the loop has ended there is
\* one result per entry of the site list, in its order; the report is built
\* once, from all of them, and the mail is sent once, after it.
C13_SitesInOrder == []SitesInOrder /\ [][StepsInOrder]_vars

\* C13 witness: a run over two sites has ended: two results in the order of
\* the site list, the report built from both and the mail sent.
C13_Witness ==
  /\ pc = "exit"
  /\ urls = << SiteA, SiteB >>
  /\ Len(results) = 2
  /\ results[1].url = HttpsScheme \o SiteA
  /\ results[2].url = SiteB
  /\ results[1].checked_at = FormatTime(0)
  /\ results[2].checked_at = FormatTime(SleepSeconds)
  /\ Len(email_body.sites) = 2
  /\ SmtpCount("sendmail") = 1

=============================================================================
